---- MODULE Spec2Model ----
(***************************************************************************)
(* Generic repository over a PostgreSQL table of User entities             *)
(* (src/base.go) with the User model, its hooks, the process-wide          *)
(* connection handle and the specialized user repository                   *)
(* (src/unnamed/part_000).                                                 *)
(*                                                                         *)
(* The table is the set of rows held by the database server.  Every        *)
(* repository method is one action: it runs the ORM statement the method   *)
(* issues against the table and leaves the method's results in ret.        *)
(***************************************************************************)
EXTENDS Integers, Sequences, FiniteSets

\* ------------------------------------------------------------------ bounds
\* Last reading of the wall clock; every statement that stamps a time uses
\* one reading and the clock then moves on.
MaxClock == 2
\* Number of connection handles NewPostgresDB may open.
MaxHandles == 2

\* ------------------------------------------------------------- value sets
\* The zero time.Time, also the value of an invalid (NULL) gorm.DeletedAt.
ZeroTime == 0
\* A timestamp chosen by the caller, different from every server stamp.
ClientStamp == MaxClock + 1
ClientTimes == {ZeroTime, ClientStamp}
Names == {"", "zhangsan"}
Emails == {"", "zhangsan@example.com"}
Ages == {25, 26}
\* Identifiers: the unique index on email lets the table hold one row per
\* email, so these are the values the serial primary key takes when no
\* insert fails; a caller may also pass any of them.
MaxID == Cardinality(Emails)
\* "no value": the nil entity / nil handle / nil slice
Nil == "nil"

\* error values
NoError == "nil"
ErrRecordNotFound == "record not found"
ErrDuplicatedKey == "duplicate key value violates unique constraint"
ErrEmptySlice == "empty slice found"
ErrClosed == "sql: database is closed"
ErrConnect == "connect failed"
ErrDriver == "driver: bad connection"

User(id, name, email, age, created, updated, deleted) ==
  [ID |-> id, Name |-> name, Email |-> email, Age |-> age,
   CreatedAt |-> created, UpdatedAt |-> updated, DeletedAt |-> deleted]

\* What a caller fills in: name and email as main's creations do, or
\* neither as main's first Update does.
Profiles == {<<n, e>> \in Names \X Emails : (n = "") = (e = "")}

\* The entities a caller passes to Create and Update.  A caller that sets
\* timestamps sets both of them.
Users ==
  {User(id, p[1], p[2], a, c, c, d) :
     id \in 0..MaxID, p \in Profiles, a \in Ages,
     c \in ClientTimes, d \in ClientTimes}

\* The entities a caller passes in a batch: literals as in main, without
\* identifier, timestamps or soft-delete marker.
BatchUsers ==
  {User(0, p[1], p[2], a, ZeroTime, ZeroTime, ZeroTime) :
     p \in Profiles, a \in Ages}

Batches ==
  {<<>>} \cup {<<u>> : u \in BatchUsers}
         \cup {<<u, v>> : u \in BatchUsers, v \in BatchUsers}

VARIABLES
  rows,      \* the rows of table postgresql_test.users, soft-deleted included
  seq,       \* next value of the serial sequence behind users.id
  now,       \* the wall clock (time.Now / NowFunc)
  DB,        \* the process-wide handle; 0 is nil
  opened,    \* number of handles opened so far; handles are 1..opened
  closed,    \* handles whose connection pool has been closed
  repoDb,    \* the handle the repository was built with (BaseRepository.db)
  ret        \* the last call: its name, its scalar argument (an identifier,
             \* an age, an offset and a limit) and what it returned; for
             \* a successful Create or Update val is the entity's ID

vars == <<rows, seq, now, DB, opened, closed, repoDb, ret>>

Ret(op, in, err, val, total) ==
  [op |-> op, in |-> in, err |-> err, val |-> val, total |-> total]

\* ------------------------------------------------------------- the table
IDsOf(t) == {r.ID : r \in t}
RowOf(t, id) == CHOOSE r \in t : r.ID = id

\* The default scope of a model with a gorm.DeletedAt field:
\* WHERE deleted_at IS NULL.
Scoped(t) == {r \in t : r.DeletedAt = ZeroTime}

\* Variant: the email column carries no unique index.
Violates_PrimaryKeyOnly(t, r) == r.ID \in IDsOf(t)

\* Unique indexes of the table: the primary key and uniqueIndex on email.
Violates(t, r) ==
  \/ r.ID \in IDsOf(t)
  \/ \E s \in t : s.Email = r.Email

\* ------------------------------------------------------------------ hooks
\* Variant: the hook stamps only the timestamps the caller left zero.
BeforeCreate_KeepSupplied(u, t) ==
  [u EXCEPT !.CreatedAt = IF @ = ZeroTime THEN t ELSE @,
            !.UpdatedAt = IF @ = ZeroTime THEN t ELSE @]

BeforeCreate(u, t) == [u EXCEPT !.CreatedAt = t, !.UpdatedAt = t]
BeforeUpdate(u, t) == [u EXCEPT !.UpdatedAt = t]

\* ------------------------------------------------------ ORM statements
Result(t, s, err, id) == [rows |-> t, seq |-> s, err |-> err, id |-> id]

\* INSERT of one entity.  A zero ID takes the next value of the serial
\* sequence, which stays consumed when the statement fails.
InsertRow(t, s, u) ==
  LET id == IF u.ID = 0 THEN s ELSE u.ID
      s2 == IF u.ID = 0 THEN s + 1 ELSE s
      r  == [u EXCEPT !.ID = id]
  IN  IF Violates(t, r)
        THEN Result(t, s2, ErrDuplicatedKey, Nil)
        ELSE Result(t \cup {r}, s2, NoError, id)

\* db.Create(entity): BeforeCreate, then the INSERT.
CreateStmt(t, s, u, time) == InsertRow(t, s, BeforeCreate(u, time))

\* The rows of a multi-row INSERT, one after the other, up to the first
\* that violates a constraint.
RECURSIVE InsertAll(_, _, _, _)
InsertAll(t, s, us, time) ==
  IF us = <<>> THEN Result(t, s, NoError, Nil)
  ELSE LET one == CreateStmt(t, s, Head(us), time)
       IN  IF one.err # NoError THEN one
           ELSE InsertAll(one.rows, one.seq, Tail(us), time)

\* Variant: the rows are inserted one by one outside a transaction, so the
\* rows before the failing one stay.
BatchCreateStmt_NoRollback(t, s, us, time) ==
  IF us = <<>> THEN Result(t, s, ErrEmptySlice, Nil)
  ELSE InsertAll(t, s, us, time)

\* db.Create(entities): one INSERT statement inside the default
\* transaction; a failure rolls every row of the statement back.
BatchCreateStmt(t, s, us, time) ==
  IF us = <<>> THEN Result(t, s, ErrEmptySlice, Nil)
  ELSE LET all == InsertAll(t, s, us, time)
       IN  IF all.err # NoError THEN Result(t, all.seq, all.err, Nil)
           ELSE all

\* UPDATE ... SET <every column> WHERE id = u.ID AND deleted_at IS NULL
UpdateAllColumns(t, s, e) ==
  LET old  == RowOf(t, e.ID)
      rest == t \ {old}
  IN  IF \E o \in rest : o.Email = e.Email
        THEN Result(t, s, ErrDuplicatedKey, Nil)
        ELSE Result(rest \cup {e}, s, NoError, e.ID)

\* INSERT ... ON CONFLICT (id) DO UPDATE SET <every column but created_at>,
\* issued with hooks skipped when the UPDATE touched no row.  A zero
\* CreatedAt is stamped by the ORM's creation-time tracking.
Upsert(t, s, e, time) ==
  LET ins == [e EXCEPT !.CreatedAt =
                IF e.CreatedAt = ZeroTime THEN time ELSE e.CreatedAt]
  IN  IF e.ID \in IDsOf(t)
        THEN LET old  == RowOf(t, e.ID)
                 rest == t \ {old}
                 new  == [ins EXCEPT !.CreatedAt = old.CreatedAt]
             IN  IF \E o \in rest : o.Email = new.Email
                   THEN Result(t, s, ErrDuplicatedKey, Nil)
                   ELSE Result(rest \cup {new}, s, NoError, e.ID)
        ELSE InsertRow(t, s, ins)

\* db.Save(entity): an entity without primary key is created; otherwise
\* every column is written, and when no row was updated the entity is
\* upserted.
SaveStmt(t, s, u, time) ==
  IF u.ID = 0 THEN CreateStmt(t, s, u, time)
  ELSE LET e == BeforeUpdate(u, time)
       IN  IF e.ID \in IDsOf(Scoped(t))
             THEN UpdateAllColumns(t, s, e)
             ELSE Upsert(t, s, e, time)

\* Variant: the hard delete of the commented-out line,
\* db.Unscoped().Delete(new(T), id).
DeleteStmt_Hard(t, id, time) == {r \in t : r.ID # id}

\* db.Delete(new(T), id) on a model with a DeletedAt field:
\* UPDATE ... SET deleted_at = now WHERE id = ? AND deleted_at IS NULL
DeleteStmt(t, id, time) ==
  {IF r.ID = id /\ r.DeletedAt = ZeroTime
     THEN [r EXCEPT !.DeletedAt = time] ELSE r : r \in t}

\* Variant: the lookup is unscoped and sees soft-deleted rows.
FirstStmt_Unscoped(t, id) == {r \in t : r.ID = id}

\* db.First(&entity, id): the scoped row with that primary key, if any
FirstStmt(t, id) == {r \in Scoped(t) : r.ID = id}

\* db.Find(&entities)
FindStmt(t) == Scoped(t)

\* Variant: the count is unscoped and counts soft-deleted rows.
CountStmt_Unscoped(t) == Cardinality(t)

\* db.Model(new(T)).Count(&count)
CountStmt(t) == Cardinality(Scoped(t))

\* Variant: the comparison is age >= ?.
WhereAgeStmt_Inclusive(t, minAge) ==
  {r \in t : r.DeletedAt = ZeroTime /\ r.Age >= minAge}

\* db.Where("age > ?", minAge).Find(&users)
WhereAgeStmt(t, minAge) == {r \in Scoped(t) : r.Age > minAge}

Min(a, b) == IF a < b THEN a ELSE b
Max(a, b) == IF a > b THEN a ELSE b

\* db.Offset(offset).Limit(limit).Find(&entities): the statement has no
\* ORDER BY, so the page is any limit-sized part of the scoped rows left
\* after skipping offset of them.
PagesStmt(t, offset, limit) ==
  LET n == Min(limit, Max(0, Cardinality(Scoped(t)) - offset))
  IN  {p \in SUBSET Scoped(t) : Cardinality(p) = n}

\* The total List returns: the function-level variable total, which the
\* short variable declaration inside the if statement never assigns.
ListTotal(count) == 0

\* --------------------------------------------------- repository methods
\* A method can be called once a repository exists; through a handle whose
\* pool is closed every statement fails and reaches no row.
Usable == repoDb # 0 /\ repoDb \notin closed
Refused(op, in) ==
  /\ repoDb \in closed
  /\ ret' = Ret(op, in, ErrClosed, Nil, 0)
  /\ UNCHANGED <<rows, seq, now, DB, opened, closed, repoDb>>

CreateTable ==
  /\ repoDb # 0
  /\ \/ Refused("CreateTable", Nil)
     \/ /\ Usable
        /\ ret' = Ret("CreateTable", Nil, NoError, Nil, 0)
        /\ UNCHANGED <<rows, seq, now, DB, opened, closed, repoDb>>

Create(u) ==
  /\ repoDb # 0
  /\ \/ Refused("Create", Nil)
     \/ /\ Usable
        /\ now <= MaxClock
        /\ u.ID = 0 => seq <= MaxID
        /\ LET res == CreateStmt(rows, seq, u, now)
           IN  /\ rows' = res.rows
               /\ seq' = res.seq
               /\ ret' = Ret("Create", Nil, res.err, res.id, 0)
        /\ now' = now + 1
        /\ UNCHANGED <<DB, opened, closed, repoDb>>

BatchCreate(us) ==
  /\ repoDb # 0
  /\ \/ Refused("BatchCreate", Nil)
     \/ /\ Usable
        /\ now <= MaxClock
        /\ seq + Len(us) - 1 <= MaxID
        /\ LET res == BatchCreateStmt(rows, seq, us, now)
           IN  /\ rows' = res.rows
               /\ seq' = res.seq
               /\ ret' = Ret("BatchCreate", Nil, res.err, Nil, 0)
        /\ now' = IF us = <<>> THEN now ELSE now + 1
        /\ UNCHANGED <<DB, opened, closed, repoDb>>

GetByID(id) ==
  /\ repoDb # 0
  /\ \/ Refused("GetByID", id)
     \/ /\ Usable
        /\ LET found == FirstStmt(rows, id)
           IN  ret' = IF found = {}
                        THEN Ret("GetByID", id, ErrRecordNotFound, Nil, 0)
                        ELSE Ret("GetByID", id, NoError,
                                 CHOOSE r \in found : TRUE, 0)
        /\ UNCHANGED <<rows, seq, now, DB, opened, closed, repoDb>>

Update(u) ==
  /\ repoDb # 0
  /\ \/ Refused("Update", Nil)
     \/ /\ Usable
        /\ now <= MaxClock
        /\ u.ID = 0 => seq <= MaxID
        /\ LET res == SaveStmt(rows, seq, u, now)
           IN  /\ rows' = res.rows
               /\ seq' = res.seq
               /\ ret' = Ret("Update", Nil, res.err, res.id, 0)
        /\ now' = now + 1
        /\ UNCHANGED <<DB, opened, closed, repoDb>>

Delete(id) ==
  /\ repoDb # 0
  /\ \/ Refused("Delete", id)
     \/ /\ Usable
        /\ now <= MaxClock
        /\ rows' = DeleteStmt(rows, id, now)
        /\ ret' = Ret("Delete", id, NoError, Nil, 0)
        /\ now' = now + 1
        /\ UNCHANGED <<seq, DB, opened, closed, repoDb>>

ListAll ==
  /\ repoDb # 0
  /\ \/ Refused("ListAll", Nil)
     \/ /\ Usable
        /\ ret' = Ret("ListAll", Nil, NoError, FindStmt(rows), 0)
        /\ UNCHANGED <<rows, seq, now, DB, opened, closed, repoDb>>

Count ==
  /\ repoDb # 0
  /\ \/ Refused("Count", Nil)
     \/ /\ Usable
        /\ ret' = Ret("Count", Nil, NoError, CountStmt(rows), 0)
        /\ UNCHANGED <<rows, seq, now, DB, opened, closed, repoDb>>

List(offset, limit) ==
  /\ repoDb # 0
  /\ \/ Refused("List", <<offset, limit>>)
     \/ /\ Usable
        /\ \E page \in PagesStmt(rows, offset, limit) :
             ret' = Ret("List", <<offset, limit>>, NoError, page,
                        ListTotal(CountStmt(rows)))
        /\ UNCHANGED <<rows, seq, now, DB, opened, closed, repoDb>>

GetUserByAge(minAge) ==
  /\ repoDb # 0
  /\ \/ Refused("GetUserByAge", minAge)
     \/ /\ Usable
        /\ ret' = Ret("GetUserByAge", minAge, NoError,
                      WhereAgeStmt(rows, minAge), 0)
        /\ UNCHANGED <<rows, seq, now, DB, opened, closed, repoDb>>

\* ------------------------------------------------------ connection factory
\* The handle NewPostgresDB stores in the global after a call that failed
\* (fail) or passed its ping.
GlobalAfterOpen(db, h, fail) == IF fail THEN db ELSE h

NewPostgresDB(fail) ==
  /\ opened < MaxHandles
  /\ LET h == opened + 1
     IN  /\ DB' = GlobalAfterOpen(DB, h, fail)
         /\ opened' = IF fail THEN opened ELSE h
         /\ ret' = IF fail THEN Ret("NewPostgresDB", Nil, ErrConnect, 0, 0)
                           ELSE Ret("NewPostgresDB", Nil, NoError, h, 0)
  /\ UNCHANGED <<rows, seq, now, closed, repoDb>>

\* Variant: Close returns without closing the pool.
ClosedAfterClose_Leak(db, cl) == cl

\* The pools that are closed after Close.
ClosedAfterClose(db, cl) == IF db # 0 THEN cl \cup {db} ELSE cl

\* Close: nothing to do without a global handle; otherwise the pool is
\* closed, and closing an open pool may report a driver error (fail).
Close(fail) ==
  /\ fail => DB # 0 /\ DB \notin closed
  /\ closed' = ClosedAfterClose(DB, closed)
  /\ ret' = Ret("Close", Nil, IF fail THEN ErrDriver ELSE NoError, Nil, 0)
  /\ UNCHANGED <<rows, seq, now, DB, opened, repoDb>>

GetDB ==
  /\ ret' = Ret("GetDB", Nil, NoError, DB, 0)
  /\ UNCHANGED <<rows, seq, now, DB, opened, closed, repoDb>>

\* NewUserRepository(db) with a handle NewPostgresDB or GetDB returned.
NewUserRepository(db) ==
  /\ db \in 1..opened
  /\ repoDb' = db
  /\ ret' = Ret("NewUserRepository", db, NoError, Nil, 0)
  /\ UNCHANGED <<rows, seq, now, DB, opened, closed>>

\* ------------------------------------------------------------------ main
\* The table after main's four creations on an empty table: two Create
\* calls and one BatchCreate of two users.
MainStore ==
  LET zhangsan == User(0, "zhangsan", "zhangsan@example.com", 25,
                       ZeroTime, ZeroTime, ZeroTime)
      lisi     == User(0, "lisi", "lisi@example.com", 30,
                       ZeroTime, ZeroTime, ZeroTime)
      wangwu   == User(0, "wangwu", "wangwu@example.com", 28,
                       ZeroTime, ZeroTime, ZeroTime)
      zhaoliu  == User(0, "zhaoliu", "zhaoliu@example.com", 35,
                       ZeroTime, ZeroTime, ZeroTime)
      a == CreateStmt({}, 1, zhangsan, 1)
      b == CreateStmt(a.rows, a.seq, lisi, 2)
      c == BatchCreateStmt(b.rows, b.seq, <<wangwu, zhaoliu>>, 3)
  IN  c.rows

\* The minimum age main queries with.
MainMinAge == 26

\* ---------------------------------------------------------- specifications
MinAges == Ages
IDs == 0..MaxID
Offsets == {0, 1}
Limits == {1, 2}

\* The repository as main uses it: the connection is open, the repository
\* is built on it and the table exists.
Init ==
  /\ rows = {}
  /\ seq = 1
  /\ now = 1
  /\ DB = 1
  /\ opened = 1
  /\ closed = {}
  /\ repoDb = 1
  /\ ret = Ret("main", Nil, NoError, Nil, 0)

Next ==
  \/ CreateTable
  \/ \E u \in Users : Create(u)
  \/ \E us \in Batches : BatchCreate(us)
  \/ \E id \in IDs : GetByID(id)
  \/ \E u \in Users : Update(u)
  \/ \E id \in IDs : Delete(id)
  \/ ListAll
  \/ Count
  \/ \E o \in Offsets, l \in Limits : List(o, l)
  \/ \E a \in MinAges : GetUserByAge(a)

Spec == Init /\ [][Next]_vars

\* The process from its start: no handle, no repository.  The repository
\* methods are driven with main's first user only.
ConnUsers == {User(0, "zhangsan", "zhangsan@example.com", 25,
                   ZeroTime, ZeroTime, ZeroTime)}

InitConn ==
  /\ rows = {}
  /\ seq = 1
  /\ now = 1
  /\ DB = 0
  /\ opened = 0
  /\ closed = {}
  /\ repoDb = 0
  /\ ret = Ret("main", Nil, NoError, Nil, 0)

NextConn ==
  \/ \E fail \in BOOLEAN : NewPostgresDB(fail)
  \/ \E fail \in BOOLEAN : Close(fail)
  \/ GetDB
  \/ \E db \in 1..MaxHandles : NewUserRepository(db)
  \/ CreateTable
  \/ \E u \in ConnUsers : Create(u)
  \/ \E id \in 1..1 : Delete(id)
  \/ Count
  \/ ListAll

SpecConn == InitConn /\ [][NextConn]_vars

\* ================================================================ claims
LiveCount(t) == Cardinality({r \in t : r.DeletedAt = ZeroTime})
NullMarked(us) ==
  Cardinality({i \in 1..Len(us) : us[i].DeletedAt = ZeroTime})

\* C1 as stated: every successful Create or BatchCreate raises what Count
\* returns by the number of records it stored, every Delete of an existing
\* non-deleted identifier lowers it by one, and Count returns the number
\* of rows whose soft-delete marker is null; so after N stored records and
\* M deletions Count returns N - M.
C1_CountIsStoredMinusDeleted ==
  [][ /\ (ret'.op = "Create" /\ ret'.err = NoError)
           => LiveCount(rows') = LiveCount(rows) + 1
      /\ (ret'.op = "BatchCreate" /\ ret'.err = NoError)
           => LiveCount(rows') = LiveCount(rows)
                                   + Cardinality(rows') - Cardinality(rows)
      /\ \A id \in IDs :
           (ret'.op = "Delete" /\ ret'.in = id /\ ret'.err = NoError
              /\ \E r \in rows : r.ID = id /\ r.DeletedAt = ZeroTime)
             => LiveCount(rows') = LiveCount(rows) - 1
      /\ ret'.op = "Count" => ret'.val = LiveCount(rows')
    ]_vars

\* C1 amended: a successful Create or BatchCreate stores every entity it
\* was given and raises what Count returns by the number of those supplied
\* with a null soft-delete marker; a Delete of a non-deleted identifier
\* lowers it by one, any other Delete leaves it; Count returns the number
\* of rows whose soft-delete marker is null.
C1_CountTracksLiveRecords ==
  [][ /\ (ret'.op = "Create" /\ ret'.err = NoError)
           => \A u \in Users :
                Create(u)
                  => /\ Cardinality(rows') = Cardinality(rows) + 1
                     /\ LiveCount(rows') = LiveCount(rows) + NullMarked(<<u>>)
      /\ (ret'.op = "BatchCreate" /\ ret'.err = NoError)
           => \A us \in Batches :
                BatchCreate(us)
                  => /\ Cardinality(rows') = Cardinality(rows) + Len(us)
                     /\ LiveCount(rows') = LiveCount(rows) + NullMarked(us)
      /\ \A id \in IDs :
           (ret'.op = "Delete" /\ ret'.in = id /\ ret'.err = NoError)
             => LiveCount(rows') =
                  IF \E r \in rows : r.ID = id /\ r.DeletedAt = ZeroTime
                    THEN LiveCount(rows) - 1 ELSE LiveCount(rows)
      /\ ret'.op = "Count" => ret'.val = LiveCount(rows')
    ]_vars

\* Count returned 1 with two rows stored, one of them deleted by Delete.
C1_Witness ==
  /\ ret.op = "Count"
  /\ ret.val = 1
  /\ Cardinality(rows) = 2
  /\ \E r \in rows : r.DeletedAt \in 1..MaxClock

\* C2: no step removes a row; a Delete of a stored identifier leaves the
\* row in the table with a non-null soft-delete marker and every other
\* field as it was, leaves every other row alone, and the row is in no
\* result of ListAll, GetByID, List or GetUserByAge on the table it leaves.
C2_DeleteIsSoft ==
  [][ /\ IDsOf(rows) \subseteq IDsOf(rows')
      /\ ret'.op = "Delete"
           => \A id \in IDsOf(rows) :
                ret'.in = id
                  => /\ id \in IDsOf(rows')
                     /\ LET old == RowOf(rows, id)
                            new == RowOf(rows', id)
                        IN  /\ new.DeletedAt # ZeroTime
                            /\ [new EXCEPT !.DeletedAt = old.DeletedAt] = old
                            /\ rows' \ {new} = rows \ {old}
                     /\ id \notin IDsOf(FindStmt(rows'))
                     /\ FirstStmt(rows', id) = {}
                     /\ \A a \in MinAges : id \notin IDsOf(WhereAgeStmt(rows', a))
                     /\ \A o \in Offsets, l \in Limits :
                          \A page \in PagesStmt(rows', o, l) :
                            id \notin IDsOf(page)
    ]_vars

\* Delete has just stamped the marker of a row that is still stored.
C2_Witness ==
  /\ ret.op = "Delete"
  /\ \E r \in rows : r.ID = ret.in /\ r.DeletedAt = now - 1 /\ r.Name # ""

\* C3: what GetUserByAge(minAge) returns is exactly the stored users with
\* a null soft-delete marker and an age above minAge, and on the table of
\* main (ages 25, 30, 28, 35) the minimum age 26 selects the three users
\* aged 30, 28 and 35.
C3_GetUserByAgeExact ==
  /\ ret.op = "GetUserByAge"
       => /\ ret.err = NoError
          /\ ret.val \subseteq rows
          /\ \A r \in rows :
               r \in ret.val <=> (r.DeletedAt = ZeroTime /\ r.Age > ret.in)
  /\ Cardinality(MainStore) = 4
  /\ {r.Age : r \in WhereAgeStmt(MainStore, MainMinAge)} = {30, 28, 35}
  /\ Cardinality(WhereAgeStmt(MainStore, MainMinAge)) = 3

\* GetUserByAge returned a user and left out a stored, non-deleted user
\* whose age equals the minimum age.
C3_Witness ==
  /\ ret.op = "GetUserByAge"
  /\ ret.val # {}
  /\ \E r \in rows : r.DeletedAt = ZeroTime /\ r.Age = ret.in

\* C4 as stated: the total List returns is the number of non-deleted
\* records, the value Count returns on the same table, and the page holds
\* non-deleted records only.
C4_ListTotalIsCount ==
  (ret.op = "List" /\ ret.err = NoError)
    => /\ ret.total = LiveCount(rows)
       /\ \A r \in ret.val : r \in rows /\ r.DeletedAt = ZeroTime

\* C5 as stated: an Update of an existing record leaves every field the
\* caller did not set and the creation timestamp as stored, and stamps the
\* update timestamp.
C5_UpdateKeepsUnsetFields ==
  [][ (ret'.op = "Update" /\ ret'.err = NoError)
        => \A u \in Users :
             (Update(u) /\ u.ID \in IDsOf(Scoped(rows)))
               => LET old == RowOf(rows, u.ID)
                      new == RowOf(rows', u.ID)
                  IN  /\ u.Name = "" => new.Name = old.Name
                      /\ u.Email = "" => new.Email = old.Email
                      /\ new.CreatedAt = old.CreatedAt
                      /\ new.UpdatedAt = now
    ]_vars

\* What a GetByID(id) that follows at once returns for an entity u created
\* at time t: one entity with u's name, email and age and both timestamps
\* stamped at t.
FetchedAsCreated(t, id, u, time) ==
  /\ FirstStmt(t, id) # {}
  /\ \A g \in FirstStmt(t, id) :
       /\ g.ID = id
       /\ g.Name = u.Name /\ g.Email = u.Email /\ g.Age = u.Age
       /\ g.CreatedAt # ZeroTime /\ g.UpdatedAt # ZeroTime
       /\ g.CreatedAt = time /\ g.UpdatedAt = time

\* C6 as stated: after every successful Create the GetByID of the assigned
\* identifier returns the entity with the supplied name, email and age and
\* non-zero timestamps stamped by the hook, whatever the caller supplied.
C6_CreateThenGetByID ==
  [][ (ret'.op = "Create" /\ ret'.err = NoError)
        => \A u \in Users :
             Create(u) => FetchedAsCreated(rows', ret'.val, u, now)
    ]_vars

\* C6 amended: the same for every accepted entity supplied with a null
\* soft-delete marker; an entity supplied with a non-null marker is stored
\* with the supplied fields and the hook's timestamps but GetByID of its
\* identifier finds nothing.
C6_CreateThenGetByIDLive ==
  [][ (ret'.op = "Create" /\ ret'.err = NoError)
        => \A u \in Users :
             Create(u)
               => /\ u.DeletedAt = ZeroTime
                       => FetchedAsCreated(rows', ret'.val, u, now)
                  /\ u.DeletedAt # ZeroTime
                       => /\ FirstStmt(rows', ret'.val) = {}
                          /\ \E r \in rows' :
                               /\ r.ID = ret'.val
                               /\ r.Name = u.Name /\ r.Email = u.Email
                               /\ r.Age = u.Age
                               /\ r.CreatedAt = now /\ r.UpdatedAt = now
                               /\ r.DeletedAt = u.DeletedAt
    ]_vars

\* Create has just stored a non-deleted row under the identifier it
\* assigned, stamped with the clock reading of the call.
C6_Witness ==
  /\ ret.op = "Create"
  /\ ret.err = NoError
  /\ \E r \in rows :
       /\ r.ID = ret.val /\ r.DeletedAt = ZeroTime
       /\ r.CreatedAt = now - 1 /\ r.Name # ""

\* C7: GetByID(id) changes nothing; it returns the row and no error when a
\* row with that identifier and a null soft-delete marker is stored, and
\* the nil entity with the not-found error otherwise.
C7_GetByIDFindsLiveOnly ==
  [][ ret'.op = "GetByID"
        => /\ rows' = rows /\ seq' = seq /\ now' = now
           /\ LET live == {r \in rows : r.ID = ret'.in /\ r.DeletedAt = ZeroTime}
              IN  /\ live # {} => ret'.err = NoError /\ {ret'.val} = live
                  /\ live = {} => /\ ret'.err = ErrRecordNotFound
                                  /\ ret'.val = Nil
    ]_vars

\* GetByID reported not-found for the identifier of a stored, soft-deleted
\* row.
C7_Witness ==
  /\ ret.op = "GetByID"
  /\ ret.err = ErrRecordNotFound
  /\ \E r \in rows : r.ID = ret.in /\ r.DeletedAt # ZeroTime

\* C8: a BatchCreate either returns no error and the table holds one new
\* row for every entity of the sequence, or returns an error and leaves the
\* table, and so what Count returns, as they were.
C8_BatchAllOrNothing ==
  [][ ret'.op = "BatchCreate"
        => \A us \in Batches :
             BatchCreate(us)
               => \/ /\ ret'.err = NoError
                     /\ rows \subseteq rows'
                     /\ Cardinality(rows') = Cardinality(rows) + Len(us)
                     /\ \A i \in 1..Len(us) :
                          \E r \in rows' \ rows :
                            /\ r.Name = us[i].Name /\ r.Email = us[i].Email
                            /\ r.Age = us[i].Age
                  \/ /\ ret'.err # NoError
                     /\ rows' = rows
                     /\ LiveCount(rows') = LiveCount(rows)
    ]_vars

\* A BatchCreate failed on a duplicate while the table holds rows.
C8_Witness ==
  /\ ret.op = "BatchCreate"
  /\ ret.err = ErrDuplicatedKey
  /\ rows # {}

UniqueEmails(t) == \A r \in t, s \in t : r.Email = s.Email => r = s

\* C9: no two stored rows, soft-deleted ones included, have the same
\* email; a Create or Update either succeeds or fails with the constraint
\* error; it succeeds only when the entity's email is stored in no row
\* (for an Update: in no other row), and when it fails the table is left
\* as it was.
C9_EmailUnique ==
  [][ /\ UniqueEmails(rows')
      /\ ret'.op \in {"Create", "Update"}
           => /\ ret'.err \in {NoError, ErrDuplicatedKey}
              /\ ret'.err # NoError => rows' = rows
      /\ (ret'.op = "Create" /\ ret'.err = NoError)
           => \A u \in Users :
                (\E r \in rows : r.Email = u.Email) => ~Create(u)
      /\ (ret'.op = "Update" /\ ret'.err = NoError)
           => \A u \in Users :
                (\E r \in rows : r.Email = u.Email /\ r.ID # u.ID)
                  => ~Update(u)
    ]_vars

\* A Create without identifier was refused for a duplicate while the only
\* stored rows are soft-deleted.
C9_Witness ==
  /\ ret.op = "Create"
  /\ ret.err = ErrDuplicatedKey
  /\ rows # {}
  /\ \A r \in rows : r.DeletedAt # ZeroTime

RepoOps ==
  {"CreateTable", "Create", "BatchCreate", "GetByID", "Update", "Delete",
   "ListAll", "List", "Count", "GetUserByAge"}

\* C10: Close without a global handle returns no error and changes
\* nothing; the global handle changes only in a NewPostgresDB call that
\* returns no error, to the open handle that call returns, and a failed
\* call leaves it; Close with a global handle closes its pool and a closed
\* pool stays closed, so the handle GetDB returns after Close is the closed
\* one until a later NewPostgresDB succeeds, and every repository call
\* through a closed handle is refused and reaches no row.
C10_HandleLifecycle ==
  [][ /\ (ret'.op = "Close" /\ DB = 0)
           => /\ ret'.err = NoError
              /\ UNCHANGED <<rows, seq, now, DB, opened, closed, repoDb>>
      /\ DB' # DB
           => /\ ret'.op = "NewPostgresDB" /\ ret'.err = NoError
              /\ DB' = ret'.val /\ DB' \notin closed'
      /\ (ret'.op = "NewPostgresDB" /\ ret'.err # NoError) => DB' = DB
      /\ (ret'.op = "Close" /\ DB # 0) => DB \in closed' /\ DB' = DB
      /\ closed \subseteq closed'
      /\ ret'.op = "GetDB"
           => /\ ret'.val = DB
              /\ DB \in closed => ret'.val \in closed'
      /\ (ret'.op \in RepoOps /\ repoDb \in closed)
           => ret'.err = ErrClosed /\ rows' = rows
    ]_vars

\* A repository built on the global handle was refused after Close closed
\* that handle.
C10_Witness ==
  /\ ret.op = "Count"
  /\ ret.err = ErrClosed
  /\ repoDb = DB
  /\ DB \in closed

====
